---------------------------- MODULE Spec2Model ----------------------------
(***************************************************************************)
(* A model of src/main.py: the PCCWebScraper class (retrying fetch, cell    *)
(* disambiguation, table parsing, filters, batch orchestration and dedup)   *)
(* and the application events that drive the shared scraper instance.       *)
(*                                                                          *)
(* Text is modelled as a sequence of characters; a character is a short     *)
(* string naming one code point ("A", "-", "LF" for the line feed, "U66F4"  *)
(* for the ideograph U+66F4).  None stands for Python's None.               *)
(***************************************************************************)
EXTENDS Integers, Sequences, FiniteSets, TLC

VARIABLES
    session,        \* PCCWebScraper.session: None or "open"
    request_count,  \* PCCWebScraper.request_count
    app,            \* lifecycle of the FastAPI application
    batch,          \* one record per running scrape_multiple_keywords call
    call,           \* one record per make_request_with_retry call
    pin,            \* argument of the function under study
    pout,           \* its result
    pop             \* which function is under study and whether it has run

vars == <<session, request_count, app, batch, call, pin, pout, pop>>

None == "None"

\* Optional[T] where T has no value of its own for None: Absent, or Some(x)
Absent == <<>>
Some(x) == <<x>>
Val(o) == o[1]

(***************************************************************************)
(* Characters                                                               *)
(***************************************************************************)
LF == "LF"
Whitespace == {" ", "TAB", LF}
Digits == {"0", "1", "2", "3", "4", "5", "6", "7", "8", "9"}
Letters == {"A", "B", "a", "b", "n"}
\* the character class [A-Za-z0-9\-_]
IdChars == Letters \cup Digits \cup {"-", "_"}
\* the ideographs used below, all inside [\u4e00-\u9fff]
CJK == {"U6843", "U66F4", "U6B63", "U516C", "U544A", "U8B8A", "U672A", "U5B9A"}

\* "(更正公告)" and "(變更公告)"
CorrectionMarker == <<"(", "U66F4", "U6B63", "U516C", "U544A", ")">>
ChangeMarker == <<"(", "U8B8A", "U66F4", "U516C", "U544A", ")">>

(***************************************************************************)
(* String primitives of Python used by the scraper                          *)
(***************************************************************************)
\* the least index >= from at which c occurs in s, 0 when there is none
FirstIndexOf(s, c, from) ==
    IF \A j \in from..Len(s) : s[j] # c THEN 0
    ELSE CHOOSE j \in from..Len(s) : s[j] = c /\ \A k \in from..(j - 1) : s[k] # c

\* sub in s
Contains(s, sub) ==
    \E i \in 1..(Len(s) - Len(sub) + 1) : SubSeq(s, i, i + Len(sub) - 1) = sub

RECURSIVE LStrip(_)
LStrip(s) ==
    IF s = <<>> THEN <<>>
    ELSE IF Head(s) \in Whitespace THEN LStrip(Tail(s))
    ELSE s

RECURSIVE RStrip(_)
RStrip(s) ==
    IF s = <<>> THEN <<>>
    ELSE IF s[Len(s)] \in Whitespace THEN RStrip(SubSeq(s, 1, Len(s) - 1))
    ELSE s

\* str.strip()
Strip(s) == RStrip(LStrip(s))

\* str.split('\n')
RECURSIVE Split(_)
Split(s) ==
    LET nl == FirstIndexOf(s, LF, 1) IN
    IF nl = 0 THEN <<s>>
    ELSE <<SubSeq(s, 1, nl - 1)>> \o Split(SubSeq(s, nl + 1, Len(s)))

\* ' '.join(parts)
RECURSIVE Join(_)
Join(parts) ==
    IF parts = <<>> THEN <<>>
    ELSE IF Len(parts) = 1 THEN parts[1]
    ELSE parts[1] \o <<" ">> \o Join(Tail(parts))

\* re.sub(r'<[^>]+>', '\n', s), scanning from index i: the text up to the
\* next "<" is kept; a "<" with a ">" at least two places on is a tag, and
\* the scan goes on after its ">"; a "<" directly followed by ">" is kept and
\* the scan goes on at the ">"; with no ">" left nothing more matches
RECURSIVE SubTags(_, _)
SubTags(s, i) ==
    LET open == FirstIndexOf(s, "<", i)
        close == FirstIndexOf(s, ">", open + 1)
    IN IF open = 0 \/ close = 0 THEN SubSeq(s, i, Len(s))
       ELSE IF close = open + 1 THEN SubSeq(s, i, open) \o SubTags(s, open + 1)
       ELSE SubSeq(s, i, open - 1) \o <<LF>> \o SubTags(s, close + 1)

\* re.sub(r'\([^)]*\)', '', s), scanning from index i: the text up to the
\* next "(" is kept, the group up to the first ")" after it is removed; with
\* no ")" left nothing more matches
RECURSIVE SubParens(_, _)
SubParens(s, i) ==
    LET open == FirstIndexOf(s, "(", i)
        close == FirstIndexOf(s, ")", open + 1)
    IN IF open = 0 \/ close = 0 THEN SubSeq(s, i, Len(s))
       ELSE SubSeq(s, i, open - 1) \o SubParens(s, close + 1)

\* re.match(r'^[A-Za-z0-9\-_]{3,30}$', s) on a stripped s
IdMinLen == 3
IdMaxLen == 30
MatchesIdPattern(s) ==
    /\ Len(s) >= IdMinLen
    /\ Len(s) <= IdMaxLen
    /\ \A i \in 1..Len(s) : s[i] \in IdChars

\* re.search(r'[\u4e00-\u9fff]', s)
HasCJK(s) == \E i \in 1..Len(s) : s[i] \in CJK

HasMarker(s) == Contains(s, CorrectionMarker) \/ Contains(s, ChangeMarker)

\* [line.strip() for line in cell_content.split('\n') if line.strip()]
RECURSIVE StripNonEmpty(_)
StripNonEmpty(raw) ==
    IF raw = <<>> THEN <<>>
    ELSE IF Strip(Head(raw)) = <<>> THEN StripNonEmpty(Tail(raw))
    ELSE <<Strip(Head(raw))>> \o StripNonEmpty(Tail(raw))

CellLines(cell_content) == StripNonEmpty(Split(SubTags(cell_content, 1)))

(***************************************************************************)
(* PCCWebScraper.improved_parse_tender_info                                 *)
(***************************************************************************)
\* one iteration of the loop of the last branch, on a line and its
\* clean_line: the new <<found_number, name_parts>>
ScanLine(line, clean_line, found_number, name_parts) ==
    IF /\ found_number = <<>>
       /\ MatchesIdPattern(clean_line)
       /\ Len(clean_line) <= IdMaxLen
       /\ ~HasCJK(clean_line)
    THEN <<clean_line, name_parts>>
    ELSE IF Strip(line) # clean_line
    THEN <<found_number, Append(name_parts, line)>>
    ELSE IF found_number = <<>> \/ line # clean_line
    THEN <<found_number, Append(name_parts, line)>>
    ELSE <<found_number, name_parts>>

\* the loop of the last branch, from line i on, with acc = <<found_number,
\* name_parts>>
RECURSIVE ScanLines(_, _, _)
ScanLines(lines, i, acc) ==
    IF i > Len(lines) THEN <<acc[1], Join(acc[2])>>
    ELSE ScanLines(lines, i + 1,
                   ScanLine(lines[i], Strip(SubParens(lines[i], 1)), acc[1], acc[2]))

\* the branch for exactly one line without lines 237-243: a line that is not
\* an identifier is always the title
ParseSingleLineNoMarker(single_line, clean_line) ==
    IF MatchesIdPattern(single_line) /\ Len(single_line) <= IdMaxLen
    THEN <<single_line, (<<>>)>>
    ELSE <<(<<>>), single_line>>

\* the branch for exactly one line
ParseSingleLine(single_line, clean_line) ==
    IF MatchesIdPattern(single_line) /\ Len(single_line) <= IdMaxLen
    THEN <<single_line, (<<>>)>>
    ELSE IF HasMarker(single_line)
    THEN IF clean_line # <<>> /\ MatchesIdPattern(clean_line)
         THEN <<clean_line, CorrectionMarker>>
         ELSE <<(<<>>), single_line>>
    ELSE <<(<<>>), single_line>>

\* the branch for several lines
ParseMultiLine(lines, first_line, remaining_lines, clean_first) ==
    IF HasMarker(first_line)
    THEN IF clean_first # <<>> /\ MatchesIdPattern(clean_first)
         THEN IF remaining_lines # <<>>
              THEN <<clean_first, Join(remaining_lines)>>
              ELSE <<clean_first, CorrectionMarker>>
         ELSE <<(<<>>), Join(lines)>>
    ELSE IF /\ MatchesIdPattern(first_line)
            /\ Len(first_line) <= IdMaxLen
            /\ ~HasCJK(first_line)
    THEN <<first_line, Join(remaining_lines)>>
    ELSE ScanLines(lines, 1, <<(<<>>), (<<>>)>>)

\* the function after lines has been computed
ParseLines(lines) ==
    IF Len(lines) = 0 THEN <<(<<>>), (<<>>)>>
    ELSE IF Len(lines) = 1
    THEN ParseSingleLine(lines[1], Strip(SubParens(lines[1], 1)))
    ELSE ParseMultiLine(lines, lines[1], Tail(lines), Strip(SubParens(lines[1], 1)))

improved_parse_tender_info(cell_content) ==
    IF cell_content = <<>> THEN <<(<<>>), (<<>>)>>
    ELSE ParseLines(CellLines(cell_content))

(***************************************************************************)
(* PCCWebScraper.make_request_with_retry                                    *)
(*                                                                          *)
(* A response body is empty, an error page (it contains one of the two      *)
(* error texts of line 161) or a document.  A call is a record: pc is       *)
(* "attempt" at the top of the loop body and "get" while the GET is         *)
(* awaited; attempt is the loop variable; gets counts the GETs issued;      *)
(* pending is the sleep done since the last response; pre_sleep is the      *)
(* sleep done before the current attempt and solo_pre_sleep what it would   *)
(* have been had no other batch used the scraper; ret is Some(the returned  *)
(* body).  With trace set the call also keeps its history: outcomes, one    *)
(* per finished attempt, and gaps, the total wait before each attempt.      *)
(***************************************************************************)
EmptyBody == [kind |-> "empty", tables |-> <<>>]
ErrorPage == [kind |-> "error page", tables |-> <<>>]
Document(tables) == [kind |-> "document", tables |-> tables]

DefaultMaxRetries == 3

IdleCall ==
    [pc |-> "idle", max_retries |-> 0, attempt |-> 0, gets |-> 0, pending |-> 0,
     pre_sleep |-> 0, solo_pre_sleep |-> 0, trace |-> FALSE, outcomes |-> <<>>,
     gaps |-> <<>>, received |-> Absent, ret |-> Absent]

NewCall(max_retries, trace) ==
    [IdleCall EXCEPT !.pc = "attempt", !.max_retries = max_retries, !.trace = trace]

Min(a, b) == IF a < b THEN a ELSE b

\* the sleep of lines 147-148, by the loop variable and the counter; the
\* variant takes the counter for the loop variable
PreSleepByCount(attempt, count) == IF count > 1 THEN Min(2 + count, 5) ELSE 0

PreSleep(attempt, count) == IF count > 1 THEN Min(2 + attempt, 5) ELSE 0

\* the sleep of line 172 without its growth
SleepStatusFlat(attempt) == 3

\* the sleeps before a retry: lines 154, 164, 172 and 179
Sleep403 == 10
SleepErrorPage(attempt) == 5 + attempt * 2
SleepStatus(attempt) == 3 + attempt
SleepException(attempt) == 5 + attempt * 2

\* attempt < max_retries - 1, and the same test one attempt short
RetriesLeftOffByOne(attempt, max_retries) == attempt < max_retries - 2

RetriesLeft(attempt, max_retries) == attempt < max_retries - 1

\* the counter after its increment by call b, had no other batch been running
\* since the batch of b began: 1 exactly when the batch began on a scraper
\* without requests and now makes its own first one
SoloCount(b) ==
    IF b \in DOMAIN batch /\ batch[b].solo_first THEN 1 ELSE request_count + 1

\* the top of the loop body, lines 143-148, up to the GET; with the loop
\* exhausted, line 183
BeginAttempt(b) ==
    /\ call[b].pc = "attempt"
    /\ IF call[b].attempt < call[b].max_retries
       THEN /\ request_count' = request_count + 1
            /\ batch' = IF b \in DOMAIN batch
                        THEN [batch EXCEPT ![b].solo_first = FALSE]
                        ELSE batch
            /\ call' = [call EXCEPT
                   ![b].pc = "get",
                   ![b].pre_sleep = PreSleep(call[b].attempt, request_count'),
                   ![b].solo_pre_sleep = PreSleep(call[b].attempt, SoloCount(b)),
                   ![b].pending = 0,
                   ![b].gaps = IF call[b].trace
                               THEN Append(@, call[b].pending
                                              + PreSleep(call[b].attempt, request_count'))
                               ELSE @]
       ELSE /\ call' = [call EXCEPT ![b].pc = "returned", ![b].ret = Some(EmptyBody)]
            /\ UNCHANGED <<request_count, batch>>
    /\ UNCHANGED <<session, app, pin, pout, pop>>

\* a failed attempt: sleep and continue when attempts are left, return ""
\* otherwise
Failed(b, outcome, sleep) ==
    /\ call[b].pc = "get"
    /\ session = "open"
    /\ call' = [call EXCEPT
           ![b].gets = @ + 1,
           ![b].outcomes = IF call[b].trace THEN Append(@, outcome) ELSE @,
           ![b].pc = IF RetriesLeft(call[b].attempt, call[b].max_retries)
                     THEN "attempt" ELSE "returned",
           ![b].attempt = IF RetriesLeft(call[b].attempt, call[b].max_retries)
                          THEN @ + 1 ELSE @,
           ![b].pending = IF RetriesLeft(call[b].attempt, call[b].max_retries)
                          THEN sleep ELSE 0,
           ![b].ret = IF RetriesLeft(call[b].attempt, call[b].max_retries)
                      THEN @ ELSE Some(EmptyBody)]
    /\ UNCHANGED <<session, request_count, app, batch, pin, pout, pop>>

\* response.status == 403, lines 151-156
Resp403(b) == Failed(b, "403", Sleep403)

\* status 200 with an error page, lines 161-166
RespErrorPage(b) == Failed(b, "error page", SleepErrorPage(call[b].attempt))

\* any other status, lines 169-174
RespStatus(b) == Failed(b, "status", SleepStatus(call[b].attempt))

\* an exception of the GET or of response.text(), lines 176-181
RespException(b) == Failed(b, "exception", SleepException(call[b].attempt))

\* status 200 with a body that is no error page, lines 158-168
RespOk(b, html_content) ==
    /\ call[b].pc = "get"
    /\ session = "open"
    /\ html_content.kind # "error page"
    /\ call' = [call EXCEPT
           ![b].gets = @ + 1,
           ![b].outcomes = IF call[b].trace THEN Append(@, "ok") ELSE @,
           ![b].pc = "returned",
           ![b].received = Some(html_content),
           ![b].ret = Some(html_content)]
    /\ UNCHANGED <<session, request_count, app, batch, pin, pout, pop>>

(***************************************************************************)
(* Cells given to improved_parse_tender_info: every concatenation of at      *)
(* most MaxTokens of the fragments below.                                    *)
(***************************************************************************)
MaxTokens == 5

TokId == <<"1", "1", "4", "B">>
\* a tag, then two identifier characters: too short for an identifier
TokTagShort == <<"<", "b", ">", "A", "B">>
\* a line of exactly IdMaxLen identifier characters
TokLong == [i \in 1..IdMaxLen |-> "A"]
Tokens ==
    { TokId, TokTagShort, TokLong, <<"U6843">>,
      <<" ">> \o CorrectionMarker, ChangeMarker, <<"(", "1", ")">>, <<LF>> }

RECURSIVE Flatten(_)
Flatten(ts) == IF ts = <<>> THEN <<>> ELSE Head(ts) \o Flatten(Tail(ts))

NoScraper ==
    /\ session = None
    /\ request_count = 0
    /\ app = "created"
    /\ batch = <<>>
    /\ call = <<>>

InitParse ==
    /\ NoScraper
    /\ \E k \in 0..MaxTokens : \E ts \in [1..k -> Tokens] : pin = Flatten(ts)
    /\ pout = None
    /\ pop = "parse"

\* scraper.improved_parse_tender_info(content)
ParseCell ==
    /\ pop = "parse"
    /\ pout' = improved_parse_tender_info(pin)
    /\ pop' = "parsed"
    /\ UNCHANGED <<session, request_count, app, batch, call, pin>>

SpecParse == InitParse /\ [][ParseCell]_vars

\* the identifier shape as the code applies it: 3 to 30 characters, each a
\* letter, a digit, a hyphen or an underscore
IdShape(s) ==
    /\ Len(s) \in 3..30
    /\ \A i \in 1..Len(s) : s[i] \in IdChars

\* the identifier shape as C4 words it: no lower bound on the length
IdShapeNoMin(s) ==
    /\ Len(s) \in 1..30
    /\ \A i \in 1..Len(s) : s[i] \in IdChars

\* a line with every parenthesised part removed, then trimmed
Unannotated(line) == Strip(SubParens(line, 1))

\* what C4 as stated expects of a single line
SingleLineAsStated(line) ==
    IF IdShapeNoMin(line) THEN <<line, (<<>>)>> ELSE <<(<<>>), line>>

\* what the amended C4 expects of a single line and its unannotated text
SingleLineAmended(line, rest) ==
    IF IdShape(line) THEN <<line, (<<>>)>>
    ELSE IF HasMarker(line) /\ IdShape(rest) THEN <<rest, CorrectionMarker>>
    ELSE <<(<<>>), line>>

OneLine(lines) == Len(lines) = 1

\* C4 as stated: a single line is the identifier when it has the identifier
\* shape (length at most 30) and is the title, with an empty identifier, in
\* every other case, a line with a correction marker included.
C4_AsStated ==
    (pop = "parsed" /\ OneLine(CellLines(pin))) =>
        pout = SingleLineAsStated(CellLines(pin)[1])

\* C4 amended: a single line is the identifier when it has 3 to 30 identifier
\* characters; otherwise, when it carries a correction or change marker and
\* what is left after removing its parenthesised parts has that shape, the
\* remainder is the identifier and the title is "(更正公告)"; in every other
\* case the identifier is empty and the line is the title.
C4_SingleLine ==
    (pop = "parsed" /\ OneLine(CellLines(pin))) =>
        pout = SingleLineAmended(CellLines(pin)[1], Unannotated(CellLines(pin)[1]))

\* a single line with the change marker after an identifier has been parsed
C4_Witness ==
    /\ pop = "parsed"
    /\ Len(CellLines(pin)) = 1
    /\ Contains(CellLines(pin)[1], ChangeMarker)
    /\ pout = <<TokId, CorrectionMarker>>

\* the first line, in order, whose unannotated text has the identifier shape;
\* 0 when there is none
RECURSIVE FirstIdLine(_, _)
FirstIdLine(lines, k) ==
    IF k > Len(lines) THEN 0
    ELSE IF IdShape(Unannotated(lines[k])) THEN k
    ELSE FirstIdLine(lines, k + 1)

\* the lines other than line k, in their order
AllBut(lines, k) ==
    SubSeq(lines, 1, k - 1) \o SubSeq(lines, k + 1, Len(lines))

\* what C5 expects of the lines of a cell
ScanAsStated(lines, k) ==
    IF k = 0 THEN <<(<<>>), Join(lines)>>
    ELSE <<Unannotated(lines[k]), Join(AllBut(lines, k))>>

\* the cells C5 is about
ScanCase(lines) ==
    /\ Len(lines) >= 2
    /\ ~HasMarker(lines[1])
    /\ ~IdShape(lines[1])

\* C5: in a multi-line cell whose first line has no marker and not the
\* identifier shape, the identifier is the first line that has the shape once
\* its parenthesised annotation is removed, and the title is every other line
\* joined in the original order.
C5_ScanKeepsEveryOtherLine ==
    (pop = "parsed" /\ ScanCase(CellLines(pin))) =>
        pout = ScanAsStated(CellLines(pin), FirstIdLine(CellLines(pin), 1))

(***************************************************************************)
(* PCCWebScraper.clean_text and PCCWebScraper.parse_budget_amount           *)
(***************************************************************************)
\* the end of a match of &[a-zA-Z]+; that starts at s[i] = "&": the index of
\* its ";", 0 when there is no match
RECURSIVE EntityEnd(_, _)
EntityEnd(s, j) ==
    IF j > Len(s) THEN 0
    ELSE IF s[j] \in Letters THEN EntityEnd(s, j + 1)
    ELSE IF s[j] = ";" THEN j
    ELSE 0

\* re.sub(r'&[a-zA-Z]+;', ' ', text), scanning from index i
RECURSIVE SubEntities(_, _)
SubEntities(s, i) ==
    IF i > Len(s) THEN <<>>
    ELSE IF /\ s[i] = "&"
            /\ i + 1 <= Len(s)
            /\ s[i + 1] \in Letters
            /\ EntityEnd(s, i + 1) # 0
    THEN <<" ">> \o SubEntities(s, EntityEnd(s, i + 1) + 1)
    ELSE <<s[i]>> \o SubEntities(s, i + 1)

\* re.sub(r'\s+', ' ', s)
RECURSIVE CollapseSpaces(_)
CollapseSpaces(s) ==
    IF s = <<>> THEN <<>>
    ELSE IF Head(s) \in Whitespace
    THEN <<" ">> \o CollapseSpaces(LStrip(s))
    ELSE <<Head(s)>> \o CollapseSpaces(Tail(s))

clean_text(text) ==
    IF text = <<>> THEN <<>>
    ELSE CollapseSpaces(Strip(SubEntities(text, 1)))

\* "未定", "依契約辦理", "不公開"
BudgetPlaceholders ==
    { <<"U672A", "U5B9A">>,
      <<"U4F9D", "U5951", "U7D04", "U8FA6", "U7406">>,
      <<"U4E0D", "U516C", "U958B">> }

\* re.sub(r'[^\d]', '', budget_str)
RECURSIVE OnlyDigits(_)
OnlyDigits(s) ==
    IF s = <<>> THEN <<>>
    ELSE IF Head(s) \in Digits THEN <<Head(s)>> \o OnlyDigits(Tail(s))
    ELSE OnlyDigits(Tail(s))

DigitValue(c) ==
    CASE c = "0" -> 0 [] c = "1" -> 1 [] c = "2" -> 2 [] c = "3" -> 3
      [] c = "4" -> 4 [] c = "5" -> 5 [] c = "6" -> 6 [] c = "7" -> 7
      [] c = "8" -> 8 [] c = "9" -> 9

\* int(clean_str) on a non-empty run of digits
RECURSIVE ToInt(_)
ToInt(clean_str) ==
    IF clean_str = <<>> THEN 0
    ELSE 10 * ToInt(SubSeq(clean_str, 1, Len(clean_str) - 1))
         + DigitValue(clean_str[Len(clean_str)])

parse_budget_amount(budget_str) ==
    IF budget_str = <<>> \/ budget_str \in BudgetPlaceholders THEN Absent
    ELSE IF OnlyDigits(budget_str) # <<>> THEN Some(ToInt(OnlyDigits(budget_str)))
    ELSE Absent

(***************************************************************************)
(* PCCWebScraper.parse_html_content                                         *)
(*                                                                          *)
(* An HTML document is the sequence of its tables; a table has an id, a     *)
(* class and rows; a row is the sequence of the texts of its td cells and   *)
(* the href of the first link of its third cell (Absent without a link).    *)
(***************************************************************************)
\* the index of the first table that satisfies want, 0 when there is none
RECURSIVE Find(_, _, _, _)
Find(tables, i, attr, value) ==
    IF i > Len(tables) THEN 0
    ELSE IF tables[i][attr] = value THEN i
    ELSE Find(tables, i + 1, attr, value)

\* soup.find('table', {'id': 'tpam'}) or soup.find('table', {'class': 'tb_01'})
LocateTable(html) ==
    IF Find(html, 1, "id", "tpam") # 0 THEN Find(html, 1, "id", "tpam")
    ELSE Find(html, 1, "class", "tb_01")

MinCells == 9

\* the part of s after the last occurrence of sep, s when there is none:
\* s.split(sep)[-1]
RECURSIVE AfterLast(_, _, _)
AfterLast(s, sep, i) ==
    IF i < 1 THEN s
    ELSE IF i + Len(sep) - 1 <= Len(s) /\ SubSeq(s, i, i + Len(sep) - 1) = sep
    THEN SubSeq(s, i + Len(sep), Len(s))
    ELSE AfterLast(s, sep, i - 1)

\* s.split('&')[0]
BeforeFirst(s, c) ==
    IF FirstIndexOf(s, c, 1) = 0 THEN s
    ELSE SubSeq(s, 1, FirstIndexOf(s, c, 1) - 1)

PkParam == <<"p", "k", "=">>

\* "https://web.pcc.gov.tw/tps/QueryTender/query/searchTenderDetail?pkPmsMain="
DetailUrlPrefix ==
    << "h", "t", "t", "p", "s", ":", "/", "/", "w", "e", "b", ".", "p", "c", "c",
       ".", "g", "o", "v", ".", "t", "w", "/", "t", "p", "s", "/", "Q", "u", "e",
       "r", "y", "T", "e", "n", "d", "e", "r", "/", "q", "u", "e", "r", "y", "/",
       "s", "e", "a", "r", "c", "h", "T", "e", "n", "d", "e", "r", "D", "e", "t",
       "a", "i", "l", "?", "p", "k", "P", "m", "s", "M", "a", "i", "n", "=" >>

\* href_url of lines 333-339, from the href of the cell's first link
DetailUrl(href) ==
    IF href # Absent /\ Val(href) # <<>>
    THEN IF Contains(Val(href), PkParam)
         THEN DetailUrlPrefix
              \o BeforeFirst(AfterLast(Val(href), PkParam, Len(Val(href))), "&")
         ELSE <<>>
    ELSE <<>>

\* the body of the loop for one row of data_rows: Some(final_data), or Absent
\* when the row is skipped
ParseRow(row, keyword) ==
    LET cols == row.cols
        agency == clean_text(cols[2])
        info == improved_parse_tender_info(Strip(cols[3]))
    IN  IF Len(cols) < MinCells THEN Absent
        ELSE IF agency = <<>> \/ (info[1] = <<>> /\ info[2] = <<>>) THEN Absent
        ELSE Some([agency |-> agency,
                   tender_id |-> info[1],
                   tender_name |-> info[2],
                   tender_type |-> clean_text(cols[5]),
                   budget |-> clean_text(cols[9]),
                   budget_num |-> parse_budget_amount(clean_text(cols[9])),
                   url |-> DetailUrl(row.href),
                   keyword |-> keyword])

\* the loop over data_rows with break in the place of continue: the first
\* skipped row ends the table
RECURSIVE ParseRowsBreak(_, _, _, _)
ParseRowsBreak(data_rows, i, keyword, results) ==
    IF i > Len(data_rows) THEN results
    ELSE IF ParseRow(data_rows[i], keyword) = Absent THEN results
    ELSE ParseRowsBreak(data_rows, i + 1, keyword,
                        results \o ParseRow(data_rows[i], keyword))

\* the loop over data_rows from row i, with the results so far
RECURSIVE ParseRows(_, _, _, _)
ParseRows(data_rows, i, keyword, results) ==
    IF i > Len(data_rows) THEN results
    ELSE ParseRows(data_rows, i + 1, keyword,
                   results \o ParseRow(data_rows[i], keyword))

parse_html_content(html, keyword) ==
    IF LocateTable(html) = 0 THEN <<>>
    ELSE LET rows == html[LocateTable(html)].rows
             HasCells(row) == Len(row.cols) >= MinCells
         IN  ParseRows(SelectSeq(rows, HasCells), 1, keyword, <<>>)

(***************************************************************************)
(* PCCWebScraper.apply_filters                                              *)
(*                                                                          *)
(* A record is the dict built by parse_html_content, with the fields        *)
(* agency (機關名稱), tender_id (標案編號), tender_name (標案名稱),              *)
(* tender_type (招標方式), budget (預算金額), budget_num (預算金額_數字),        *)
(* url (網址) and keyword (關鍵字).  A filters dict is a record whose fields   *)
(* are Absent when the key is missing.                                      *)
(***************************************************************************)
\* bool(o) of an Optional[int] and of an Optional[str]
TruthyInt(o) == o # Absent /\ Val(o) # 0
TruthyStr(o) == o # Absent /\ Val(o) # <<>>

\* tender_type in r.get('招標方式', '')
PassesTenderType(r, tender_type) == Contains(r.tender_type, tender_type)

\* r.get('預算金額_數字') and r['預算金額_數字'] >= min_budget
PassesMinBudget(r, min_budget) ==
    TruthyInt(r.budget_num) /\ Val(r.budget_num) >= min_budget

\* agency_keyword in r.get('機關名稱', '')
PassesAgency(r, agency_keyword) == Contains(r.agency, agency_keyword)

\* each list comprehension is a SelectSeq
apply_filters(results, filters) ==
    LET by_type ==
            IF TruthyStr(filters.tender_type)
            THEN LET keep(r) == PassesTenderType(r, Val(filters.tender_type))
                 IN  SelectSeq(results, keep)
            ELSE results
        by_budget ==
            IF TruthyInt(filters.min_budget)
            THEN LET keep(r) == PassesMinBudget(r, Val(filters.min_budget))
                 IN  SelectSeq(by_type, keep)
            ELSE by_type
    IN  IF TruthyStr(filters.agency_filter)
        THEN LET keep(r) == PassesAgency(r, Val(filters.agency_filter))
             IN  SelectSeq(by_budget, keep)
        ELSE by_budget

(***************************************************************************)
(* The dedup pass at the end of scrape_multiple_keywords                    *)
(***************************************************************************)
\* f"{機關名稱}|{標案編號}|{標案名稱}"
identifier(result) ==
    result.agency \o <<"|">> \o result.tender_id \o <<"|">> \o result.tender_name

\* the loop without seen.add(identifier): every record is kept
DedupLoopNoSeen(all_results, i, seen, unique_results) == all_results

\* the loop over all_results from index i, with the set seen and the list
\* unique_results built so far
RECURSIVE DedupLoop(_, _, _, _)
DedupLoop(all_results, i, seen, unique_results) ==
    IF i > Len(all_results) THEN unique_results
    ELSE IF identifier(all_results[i]) \notin seen
    THEN DedupLoop(all_results, i + 1, seen \cup {identifier(all_results[i])},
                   Append(unique_results, all_results[i]))
    ELSE DedupLoop(all_results, i + 1, seen, unique_results)

Dedup(all_results) == DedupLoop(all_results, 1, {}, <<>>)

\* bool(filters) of a filters dict, or of None
DictNonEmpty(filters) ==
    filters.tender_type # Absent \/ filters.min_budget # Absent
        \/ filters.agency_filter # Absent

\* scrape_multiple_keywords after its loop: the filters, then the dedup pass
FilterAndDedup(all_results, filters) ==
    Dedup(IF DictNonEmpty(filters) THEN apply_filters(all_results, filters)
          ELSE all_results)

(***************************************************************************)
(* apply_filters on its own: every list of at most MaxFilterRecords records *)
(* and every filters dict over the values below.                            *)
(***************************************************************************)
MaxFilterRecords == 2

\* budget cells: "未定", "0", "1", "5"
FilterBudgets == { <<"U672A", "U5B9A">>, <<"0">>, <<"1">>, <<"5">> }

FilterRecords ==
    { [agency |-> a, tender_id |-> TokId, tender_name |-> <<>>, tender_type |-> t,
       budget |-> b, budget_num |-> parse_budget_amount(b), url |-> <<>>,
       keyword |-> "k1"] :
      a \in { <<"X">>, <<"X", "Y">> }, t \in { <<"A">>, <<"A", "B">> },
      b \in FilterBudgets }

FilterDicts ==
    [tender_type : {Absent, Some(<<>>), Some(<<"A">>), Some(<<"B">>)},
     min_budget : {Absent, Some(-1), Some(0), Some(1), Some(5)},
     agency_filter : {Absent, Some(<<"X">>), Some(<<"Y">>)}]

InitFilter ==
    /\ NoScraper
    /\ \E k \in 0..MaxFilterRecords : \E rs \in [1..k -> FilterRecords] :
       \E f \in FilterDicts : pin = [results |-> rs, filters |-> f]
    /\ pout = None
    /\ pop = "filter"

\* scraper.apply_filters(results, filters)
ApplyFilters ==
    /\ pop = "filter"
    /\ pout' = apply_filters(pin.results, pin.filters)
    /\ pop' = "filtered"
    /\ UNCHANGED <<session, request_count, app, batch, call, pin>>

SpecFilter == InitFilter /\ [][ApplyFilters]_vars

Range(s) == { s[i] : i \in 1..Len(s) }

\* a record passes every predicate the filters dict specifies
PassesSpecified(r, f) ==
    /\ f.tender_type # Absent => Contains(r.tender_type, Val(f.tender_type))
    /\ f.min_budget # Absent =>
           (r.budget_num # Absent /\ Val(r.budget_num) >= Val(f.min_budget))
    /\ f.agency_filter # Absent => Contains(r.agency, Val(f.agency_filter))

NothingSpecified(f) ==
    f.tender_type = Absent /\ f.min_budget = Absent /\ f.agency_filter = Absent

\* C7: a record is in the output of apply_filters exactly when it passes every
\* predicate that was specified (the budget one: the amount is present and at
\* least the minimum), and a filter that specifies nothing returns the list
\* unchanged.
C7_FilterIffAllSpecified ==
    pop = "filtered" =>
        /\ Range(pout) = { r \in Range(pin.results) : PassesSpecified(r, pin.filters) }
        /\ NothingSpecified(pin.filters) => pout = pin.results

(***************************************************************************)
(* The dedup pass on its own: every list of at most MaxDedupRecords records *)
(* below, applied once and then once more to its own output.                *)
(***************************************************************************)
MaxDedupRecords == 3

DedupRecords ==
    { [agency |-> a, tender_id |-> i, tender_name |-> n, tender_type |-> <<"A">>,
       budget |-> <<>>, budget_num |-> Absent, url |-> <<>>, keyword |-> k] :
      a \in { <<"X">>, <<"X", "|">> }, i \in { <<>>, TokId },
      n \in { <<"U6843">>, <<"|", "U6843">> }, k \in {"k1", "k2"} }

InitDedup ==
    /\ NoScraper
    /\ \E k \in 0..MaxDedupRecords : \E rs \in [1..k -> DedupRecords] : pin = rs
    /\ pout = None
    /\ pop = "dedup"

\* the dedup pass on all_results
DedupOnce ==
    /\ pop = "dedup"
    /\ pout' = Dedup(pin)
    /\ pop' = "deduped"
    /\ UNCHANGED <<session, request_count, app, batch, call, pin>>

\* the dedup pass on its own output
DedupAgain ==
    /\ pop = "deduped"
    /\ pout' = Dedup(pout)
    /\ pop' = "deduped twice"
    /\ UNCHANGED <<session, request_count, app, batch, call, pin>>

SpecDedup == InitDedup /\ [][DedupOnce \/ DedupAgain]_vars

\* the records of a list whose identity key no earlier record of the list
\* has, in the order of the list, from index i on
RECURSIVE FirstOfEachKey(_, _)
FirstOfEachKey(rs, i) ==
    IF i > Len(rs) THEN <<>>
    ELSE (IF \A j \in 1..(i - 1) : identifier(rs[j]) # identifier(rs[i])
          THEN <<rs[i]>> ELSE <<>>) \o FirstOfEachKey(rs, i + 1)

\* C6: the dedup pass keeps exactly the first record of each identity key, in
\* the original order; its output is no longer than its input, and applying
\* it to its own output changes nothing.
C6_DedupKeepsFirst ==
    pop \in {"deduped", "deduped twice"} =>
        /\ pout = FirstOfEachKey(pin, 1)
        /\ Len(pout) <= Len(pin)

\* the fields the identity of a record is made of
Triple(r) == <<r.agency, r.tender_id, r.tender_name>>

\* C13: the dedup pass never merges two records that differ in agency,
\* tender id or tender title, also with the separator "|" inside a field:
\* every record of the input has a record of the same agency, id and title
\* in the output.
C13_NoMergeOfDistinct ==
    pop \in {"deduped", "deduped twice"} =>
        \A i \in 1..Len(pin) : \E j \in 1..Len(pout) : Triple(pout[j]) = Triple(pin[i])

\* a list with a duplicate in it has been deduplicated twice
C6_Witness ==
    /\ pop = "deduped twice"
    /\ Len(pout) = 2
    /\ Len(pin) = 3
    /\ identifier(pin[1]) = identifier(pin[3])
    /\ pin[1] # pin[3]

(***************************************************************************)
(* parse_html_content on its own, followed by the filters and the dedup     *)
(* pass: every document with at most one table of at most MaxRows rows.     *)
(***************************************************************************)
MaxRows == 2

\* the cells of a row with n cells, given the four cells that are read
RowCols(n, agency, info, type, budget) ==
    [i \in 1..n |-> CASE i = 2 -> agency [] i = 3 -> info [] i = 5 -> type
                      [] i = 9 -> budget [] OTHER -> <<"1">>]

TableRows ==
    { [cols |-> RowCols(n, a, t, <<"A">>, <<"5">>), href |-> Absent] :
      n \in {MinCells - 1, MinCells},
      a \in { <<"X", " ">>, <<"&", "n", ";">> },
      t \in { TokId, <<" ", LF>>, <<LF, "U6843">> } }

NoFilters == [tender_type |-> Absent, min_budget |-> Absent, agency_filter |-> Absent]

TableFilters == { NoFilters, [NoFilters EXCEPT !.min_budget = Some(5)] }

InitTable ==
    /\ NoScraper
    /\ \E k \in 0..MaxRows : \E rows \in [1..k -> TableRows] :
       \E tables \in { <<>>, <<[id |-> "tpam", class |-> "", rows |-> rows]>>,
                       <<[id |-> "", class |-> "tb_01", rows |-> rows]>>,
                       <<[id |-> "", class |-> "", rows |-> rows]>> } :
       \E f \in TableFilters :
           pin = [html |-> tables, keyword |-> "k1", filters |-> f]
    /\ pout = None
    /\ pop = "parse html"

\* scraper.parse_html_content(html_content, keyword)
ParseHtml ==
    /\ pop = "parse html"
    /\ pout' = parse_html_content(pin.html, pin.keyword)
    /\ pop' = "parsed html"
    /\ UNCHANGED <<session, request_count, app, batch, call, pin>>

\* the end of scrape_multiple_keywords on the records of one page
FilterAndDedupPage ==
    /\ pop = "parsed html"
    /\ pout' = FilterAndDedup(pout, pin.filters)
    /\ pop' = "batch result"
    /\ UNCHANGED <<session, request_count, app, batch, call, pin>>

SpecTable == InitTable /\ [][ParseHtml \/ FilterAndDedupPage]_vars

ValidRecord(r) ==
    r.agency # <<>> /\ (r.tender_id # <<>> \/ r.tender_name # <<>>)

\* a row has at least 9 cells, an agency and an identifier or a title
GoodRow(row) ==
    /\ Len(row.cols) >= 9
    /\ clean_text(row.cols[2]) # <<>>
    /\ improved_parse_tender_info(Strip(row.cols[3])) # <<(<<>>), (<<>>)>>

\* the tender cells of the good rows, in the order of the table
RECURSIVE GoodCells(_, _)
GoodCells(rows, i) ==
    IF i > Len(rows) THEN <<>>
    ELSE (IF GoodRow(rows[i]) THEN <<rows[i].cols[3]>> ELSE <<>>)
         \o GoodCells(rows, i + 1)

\* the rows of the table the page's records were read from
PageRows(html) == IF LocateTable(html) = 0 THEN <<>> ELSE html[LocateTable(html)].rows

\* C8: every record of parse_html_content, and of the result after filters and
\* dedup, has an agency and an identifier or a title; the records are those of
\* the rows that have at least 9 cells and satisfy this, one per such row in
\* the order of the table, whatever rows were skipped before them.
C8_ValidRecords ==
    /\ pop \in {"parsed html", "batch result"} =>
           \A i \in 1..Len(pout) : ValidRecord(pout[i])
    /\ pop = "parsed html" =>
           /\ Len(pout) = Len(GoodCells(PageRows(pin.html), 1))
           /\ \A i \in 1..Len(pout) :
                  <<pout[i].tender_id, pout[i].tender_name>> =
                      improved_parse_tender_info(Strip(GoodCells(PageRows(pin.html), 1)[i]))

\* a record has been read from the row after a skipped row
C8_Witness ==
    /\ pop = "parsed html"
    /\ Len(PageRows(pin.html)) = 2
    /\ Len(PageRows(pin.html)[1].cols) >= 9
    /\ ~GoodRow(PageRows(pin.html)[1])
    /\ Len(pout) = 1

(***************************************************************************)
(* The detail URL of parse_html_content: every page of one table with one   *)
(* valid row whose tender cell has no link, or a first link with an href of *)
(* at most MaxHrefTokens pieces.                                            *)
(***************************************************************************)
MaxHrefTokens == 3

HrefTokens == { PkParam, <<"a">>, <<"1">>, <<"&">>, <<"?">> }

Hrefs ==
    {Absent} \cup
    UNION { { Some(Flatten(t)) : t \in [1..n -> HrefTokens] } : n \in 0..MaxHrefTokens }

InitUrl ==
    /\ NoScraper
    /\ \E h \in Hrefs :
           pin = [html |-> <<[id |-> "tpam", class |-> "",
                              rows |-> <<[cols |-> RowCols(MinCells, <<"X">>, TokId,
                                                           <<"A">>, <<"5">>),
                                          href |-> h]>>]>>,
                  keyword |-> "k1", filters |-> NoFilters]
    /\ pout = None
    /\ pop = "parse html"

SpecUrl == InitUrl /\ [][ParseHtml]_vars

\* the href of the row's link and the URL of its record
LinkHref == pin.html[1].rows[1].href
RecordUrl == pout[1].url

\* url is the canonical URL of the value that follows some "pk=" of href, up
\* to the next "&"
CanonicalOf(href, url) ==
    \E i \in 1..(Len(href) - Len(PkParam) + 1) :
        /\ SubSeq(href, i, i + Len(PkParam) - 1) = PkParam
        /\ url = DetailUrlPrefix
                 \o BeforeFirst(SubSeq(href, i + Len(PkParam), Len(href)), "&")

\* C12: the detail URL of a record is the canonical URL built from the
\* primary-key parameter when the href of the cell's link carries it, the
\* href unchanged when the link's href lacks it, and empty when the cell has
\* no link.
C12_DetailUrl ==
    pop = "parsed html" /\ Len(pout) = 1 =>
        IF LinkHref = Absent THEN RecordUrl = <<>>
        ELSE IF Contains(Val(LinkHref), PkParam)
        THEN CanonicalOf(Val(LinkHref), RecordUrl)
        ELSE RecordUrl = Val(LinkHref)

(***************************************************************************)
(* The pages the site answers with                                          *)
(***************************************************************************)
\* a document without the data table
DocNoTable == <<[id |-> "", class |-> "", rows |-> <<>>]>>

\* a document with a data table of three rows: a tender with a budget, a row
\* of 8 cells, and a tender without identifier whose budget is undetermined
DocData ==
    <<[id |-> "tpam", class |-> "",
       rows |-> << [cols |-> RowCols(MinCells, <<"X">>, TokId, <<"A">>, <<"5">>),
                    href |-> Absent],
                   [cols |-> RowCols(MinCells - 1, <<"X">>, TokId, <<"A">>, <<"5">>),
                    href |-> Absent],
                   [cols |-> RowCols(MinCells, <<"X">>, <<"U6843">>, <<"A">>,
                                     <<"U672A", "U5B9A">>),
                    href |-> Absent] >>]>>

OkBodies == { Document(DocNoTable), Document(DocData) }

(***************************************************************************)
(* The application: startup_event, the handlers that run a batch            *)
(* (scrape_tenders, scrape_today) and shutdown_event, on the one scraper.   *)
(*                                                                          *)
(* A batch is a call of scrape_multiple_keywords: pc is "loop" at the top   *)
(* of its loop, "scrape" after the pacing sleep, "fetching" inside          *)
(* scrape_by_keyword and "done" after the return; i counts the keywords     *)
(* finished.  pages, log and solo_first observe the run: the body each      *)
(* keyword's fetch returned, the pacing sleeps and the start and end of     *)
(* each keyword's query in order, and whether the next request of the batch *)
(* would be the scraper's first had the batch been the only one running.    *)
(***************************************************************************)
\* no function is under study
NoFunction ==
    /\ pin = None
    /\ pout = None
    /\ pop = "none"

NumBatches == 2
MaxKeywords == 2

Batches == 1..NumBatches

\* the i-th keyword of a request
Keyword(i) == [j \in 1..i |-> "k"]

BatchFilters == { NoFilters, [NoFilters EXCEPT !.min_budget = Some(5)] }

PacingDelay == 3

IdleBatch ==
    [pc |-> "idle", keywords |-> <<>>, filters |-> NoFilters, i |-> 0,
     all_results |-> <<>>, pages |-> <<>>, log |-> <<>>, solo_first |-> FALSE,
     result |-> <<>>]

Init ==
    /\ session = None
    /\ request_count = 0
    /\ app = "created"
    /\ batch = [b \in Batches |-> IdleBatch]
    /\ call = [b \in Batches |-> IdleCall]
    /\ NoFunction

\* init_session
InitSession(s) == IF s = None THEN "open" ELSE s

\* startup_event; requests are served once it has completed
Startup ==
    /\ app = "created"
    /\ session' = InitSession(session)
    /\ app' = "running"
    /\ UNCHANGED <<request_count, batch, call, pin, pout, pop>>

\* shutdown_event, once the running requests have been served
Shutdown ==
    /\ app = "running"
    /\ \A b \in DOMAIN batch : batch[b].pc \in {"idle", "done", "cancelled"}
    /\ session' = None
    /\ app' = "stopped"
    /\ UNCHANGED <<request_count, batch, call, pin, pout, pop>>

\* a handler calls scrape_multiple_keywords: all_results = []
StartBatch(b) ==
    /\ app = "running"
    /\ batch[b].pc = "idle"
    /\ \E n \in 0..MaxKeywords : \E filters \in BatchFilters :
           batch' = [batch EXCEPT ![b] =
               [IdleBatch EXCEPT !.pc = "loop",
                                 !.keywords = [k \in 1..n |-> Keyword(k)],
                                 !.filters = filters,
                                 !.solo_first = (request_count = 0)]]
    /\ UNCHANGED <<session, request_count, app, call, pin, pout, pop>>

\* if i > 0, and the same test always true
NeedsPaceAlways(i) == TRUE

NeedsPace(i) == i > 0

\* await asyncio.sleep(3) of line 414
Pace(b) ==
    /\ batch[b].pc = "loop"
    /\ batch[b].i < Len(batch[b].keywords)
    /\ NeedsPace(batch[b].i)
    /\ batch' = [batch EXCEPT ![b].pc = "scrape",
                              ![b].log = Append(@, <<"pace", PacingDelay>>)]
    /\ UNCHANGED <<session, request_count, app, call, pin, pout, pop>>

\* scrape_by_keyword up to its call of make_request_with_retry
ScrapeByKeyword(b) ==
    /\ \/ batch[b].pc = "scrape"
       \/ /\ batch[b].pc = "loop"
          /\ batch[b].i < Len(batch[b].keywords)
          /\ ~NeedsPace(batch[b].i)
    /\ session' = InitSession(session)
    /\ call' = [call EXCEPT ![b] = NewCall(DefaultMaxRetries, FALSE)]
    /\ batch' = [batch EXCEPT ![b].pc = "fetching",
                              ![b].log = Append(@, <<"fetch", batch[b].i + 1>>)]
    /\ UNCHANGED <<request_count, app, pin, pout, pop>>

\* the rest of scrape_by_keyword, lines 202-206
KeywordResults(html_content, keyword) ==
    IF html_content.kind = "empty" THEN <<>>
    ELSE parse_html_content(html_content.tables, keyword)

\* all_results = keyword_results in the place of extend
AssignResults(all_results, keyword_results) == keyword_results

\* all_results.extend(keyword_results)
Extend(all_results, keyword_results) == all_results \o keyword_results

\* the return of make_request_with_retry to scrape_by_keyword, and of
\* scrape_by_keyword to the loop
KeywordDone(b) ==
    /\ batch[b].pc = "fetching"
    /\ call[b].pc = "returned"
    /\ batch' = [batch EXCEPT
           ![b].pc = "loop",
           ![b].i = @ + 1,
           ![b].all_results =
               Extend(@, KeywordResults(Val(call[b].ret),
                                        batch[b].keywords[batch[b].i + 1])),
           ![b].pages = Append(@, Val(call[b].ret)),
           ![b].log = Append(@, <<"parsed", batch[b].i + 1>>)]
    /\ call' = [call EXCEPT ![b] = IdleCall]
    /\ UNCHANGED <<session, request_count, app, pin, pout, pop>>

\* after the loop: filters, dedup pass and return
Finish(b) ==
    /\ batch[b].pc = "loop"
    /\ batch[b].i = Len(batch[b].keywords)
    /\ batch' = [batch EXCEPT
           ![b].pc = "done",
           ![b].result = FilterAndDedup(batch[b].all_results, batch[b].filters)]
    /\ UNCHANGED <<session, request_count, app, call, pin, pout, pop>>

Next ==
    \/ Startup
    \/ Shutdown
    \/ \E b \in DOMAIN batch : StartBatch(b)
    \/ \E b \in DOMAIN batch : Pace(b)
    \/ \E b \in DOMAIN batch : ScrapeByKeyword(b)
    \/ \E b \in DOMAIN batch : BeginAttempt(b)
    \/ \E b \in DOMAIN batch : Resp403(b)
    \/ \E b \in DOMAIN batch : RespErrorPage(b)
    \/ \E b \in DOMAIN batch : RespStatus(b)
    \/ \E b \in DOMAIN batch : RespException(b)
    \/ \E b \in DOMAIN batch : \E html_content \in OkBodies : RespOk(b, html_content)
    \/ \E b \in DOMAIN batch : KeywordDone(b)
    \/ \E b \in DOMAIN batch : Finish(b)

\* NumBatches handlers may run their batches at the same time
Spec == Init /\ [][Next]_vars

\* one handler runs one batch
InitBatch ==
    /\ session = None
    /\ request_count = 0
    /\ app = "created"
    /\ batch = [b \in {1} |-> IdleBatch]
    /\ call = [b \in {1} |-> IdleCall]
    /\ NoFunction

SpecBatch == InitBatch /\ [][Next]_vars

(***************************************************************************)
(* A batch under a deadline of its caller.  scrape_multiple_keywords takes  *)
(* no deadline; a caller sets one around the coroutine                      *)
(* (asyncio.wait_for, Task.cancel), and asyncio then raises CancelledError  *)
(* at the await the batch is suspended in: the pacing sleep of line 414,    *)
(* the sleeps of make_request_with_retry, session.get or response.text.     *)
(* CancelledError is not an Exception, so line 176 does not catch it; no    *)
(* other handler stands between the await and the caller, and the           *)
(* exception leaves scrape_multiple_keywords without a return value.  pc is *)
(* "cancelled" then; all_results keeps what the local list held.            *)
(***************************************************************************)
\* the batch has an await ahead of it
AwaitAhead(b) ==
    \/ batch[b].pc = "loop" /\ batch[b].i < Len(batch[b].keywords)
    \/ batch[b].pc = "scrape"
    \/ batch[b].pc = "fetching" /\ call[b].pc # "returned"
    \/ batch[b].pc = "fetching" /\ batch[b].i + 1 < Len(batch[b].keywords)

\* the deadline expires: CancelledError at the next await of batch b
Cancel(b) ==
    /\ AwaitAhead(b)
    /\ batch' = [batch EXCEPT ![b].pc = "cancelled"]
    /\ call' = [call EXCEPT ![b] = IdleCall]
    /\ UNCHANGED <<session, request_count, app, pin, pout, pop>>

NextDeadline ==
    \/ Next
    \/ \E b \in DOMAIN batch : Cancel(b)

\* one handler runs one batch, under a deadline
SpecDeadline == InitBatch /\ [][NextDeadline]_vars

\* C11: when the deadline expires during a batch, the batch returns, and
\* what it returns are the records accumulated from the keywords completed
\* so far (after the filters and the dedup pass, as every return of the
\* batch)
C11_DeadlineReturnsAccumulated ==
    \A b \in DOMAIN batch :
        batch[b].pc \notin {"idle", "loop", "scrape", "fetching"} =>
            /\ batch[b].pc = "done"
            /\ batch[b].result = FilterAndDedup(batch[b].all_results, batch[b].filters)

\* a fetch that ran out of attempts, or a page without the data table
KeywordFailed(body) == body.kind = "empty" \/ LocateTable(body.tables) = 0

\* the records of the keywords queried so far, a failed one giving none
RECURSIVE Aggregate(_, _, _)
Aggregate(pages, keywords, k) ==
    IF k > Len(pages) THEN <<>>
    ELSE (IF KeywordFailed(pages[k]) THEN <<>>
          ELSE parse_html_content(pages[k].tables, keywords[k]))
         \o Aggregate(pages, keywords, k + 1)

\* a record passes the filters of the batch
Kept(r, filters) == DictNonEmpty(filters) => apply_filters(<<r>>, filters) = <<r>>

\* C2: a keyword whose fetch ran out of attempts, or whose page has no data
\* table, adds no record and does not stop the batch: when the batch returns
\* every keyword has been queried, and the result is the filtered and
\* deduplicated records of the keywords that succeeded, so that every such
\* record that passes the filters has its identity key in the result.
C2_BestEffort ==
    \A b \in DOMAIN batch :
        LET B == batch[b] IN
        /\ B.all_results = Aggregate(B.pages, B.keywords, 1)
        /\ B.pc = "done" =>
               /\ Len(B.pages) = Len(B.keywords)
               /\ B.result = FilterAndDedup(Aggregate(B.pages, B.keywords, 1), B.filters)
               /\ \A k \in 1..Len(B.pages) :
                      ~KeywordFailed(B.pages[k]) =>
                          \A r \in Range(parse_html_content(B.pages[k].tables, B.keywords[k])) :
                              Kept(r, B.filters) =>
                                  \E j \in 1..Len(B.result) :
                                      identifier(B.result[j]) = identifier(r)

\* a batch of two keywords has returned the records of the second after the
\* fetch of the first ran out of attempts
C2_Witness ==
    \E b \in DOMAIN batch :
        /\ batch[b].pc = "done"
        /\ Len(batch[b].keywords) = 2
        /\ batch[b].pages = <<EmptyBody, Document(DocData)>>
        /\ Len(batch[b].result) = 2

\* the log of a batch of n keywords that has returned
RECURSIVE ExpectedLog(_)
ExpectedLog(n) ==
    IF n = 0 THEN <<>>
    ELSE (IF n = 1 THEN <<>> ELSE ExpectedLog(n - 1) \o << <<"pace", 3>> >>)
         \o << <<"fetch", n>>, <<"parsed", n>> >>

\* C3: the keywords are queried one after another in input order, the query
\* of a keyword beginning only after the one before it has been fetched and
\* parsed, with one pacing sleep between two successive queries and none
\* before the first; a fetch runs only between the beginning and the end of
\* its keyword's query.
C3_SequentialPaced ==
    \A b \in DOMAIN batch :
        LET B == batch[b]
            expected == ExpectedLog(Len(B.keywords))
        IN  /\ Len(B.log) <= Len(expected)
            /\ B.log = SubSeq(expected, 1, Len(B.log))
            /\ B.pc = "done" => B.log = expected
            /\ call[b].pc # "idle" =>
                   (B.log # <<>> /\ B.log[Len(B.log)] = <<"fetch", B.i + 1>>)

\* a batch of two keywords has returned
C3_Witness ==
    \E b \in DOMAIN batch :
        /\ batch[b].pc = "done"
        /\ batch[b].log = << <<"fetch", 1>>, <<"parsed", 1>>, <<"pace", 3>>,
                             <<"fetch", 2>>, <<"parsed", 2>> >>

\* C10 as stated: the counter never changes what a fetch does: the sleep
\* before each attempt is the one the batch would have done running alone.
C10_AsStated ==
    \A b \in DOMAIN call : call[b].pre_sleep = call[b].solo_pre_sleep

\* C10 amended: while batches run the session stays open, so that the counter
\* is the only shared state that changes, and its value changes one thing
\* only: the batch that began on a scraper without requests sleeps 2 seconds
\* before its first attempt when another batch has made a request in the
\* meantime, and would not have slept alone; every other sleep is the same.
C10_CounterOnlyFirstWait ==
    /\ \A b \in DOMAIN batch :
           batch[b].pc \notin {"idle", "done"} => session = "open"
    /\ \A b \in DOMAIN call :
           call[b].pre_sleep # call[b].solo_pre_sleep =>
               /\ call[b].pre_sleep = 2
               /\ call[b].solo_pre_sleep = 0
               /\ b \in DOMAIN batch
               /\ batch[b].i = 0
               /\ call[b].attempt <= 1

\* two batches are fetching, and the second to make its first request slept
C10_Witness ==
    \E b1, b2 \in DOMAIN batch :
        /\ b1 # b2
        /\ batch[b1].pc = "fetching"
        /\ batch[b2].pc = "fetching"
        /\ call[b1].pre_sleep = 0
        /\ call[b2].pre_sleep = 2
        /\ call[b2].solo_pre_sleep = 0
        /\ request_count = 2

(***************************************************************************)
(* make_request_with_retry on its own: one call with max_retries from 0 to  *)
(* MaxRetriesArg on a scraper that has made at most MaxPriorRequests        *)
(* requests before.                                                         *)
(***************************************************************************)
MaxRetriesArg == 5
MaxPriorRequests == 1

InitFetch ==
    /\ session = "open"
    /\ app = "running"
    /\ request_count \in 0..MaxPriorRequests
    /\ batch = <<>>
    /\ \E n \in 0..MaxRetriesArg : call = [b \in {1} |-> NewCall(n, TRUE)]
    /\ NoFunction

NextFetch ==
    \/ \E b \in DOMAIN call : BeginAttempt(b)
    \/ \E b \in DOMAIN call : Resp403(b)
    \/ \E b \in DOMAIN call : RespErrorPage(b)
    \/ \E b \in DOMAIN call : RespStatus(b)
    \/ \E b \in DOMAIN call : RespException(b)
    \/ \E b \in DOMAIN call : \E html_content \in OkBodies : RespOk(b, html_content)

SpecFetch == InitFetch /\ [][NextFetch]_vars

AllFailed(outcomes) == \A i \in 1..Len(outcomes) : outcomes[i] # "ok"

\* C1: a call with max_retries n >= 1 never issues more than n GETs; when
\* every attempt fails it returns the empty body after exactly n GETs; when
\* the first attempt succeeds it returns the body received, after one GET.
C1_ExactAttempts ==
    \A b \in DOMAIN call :
        LET c == call[b] IN
        (c.trace /\ c.max_retries >= 1) =>
            /\ c.gets <= c.max_retries
            /\ (c.pc = "returned" /\ AllFailed(c.outcomes)) =>
                   (c.gets = c.max_retries /\ c.ret = Some(EmptyBody))
            /\ c.outcomes = <<"ok">> =>
                   (c.pc = "returned" /\ c.gets = 1 /\ c.ret = c.received)

\* three attempts, each answered 403, and the call has returned
C1_Witness ==
    \E b \in DOMAIN call :
        /\ call[b].pc = "returned"
        /\ call[b].max_retries = 3
        /\ call[b].outcomes = <<"403", "403", "403">>
        /\ call[b].gets = 3
        /\ call[b].ret = Some(EmptyBody)

\* C9 as stated: from the second retry on, the total wait before an attempt
\* is strictly longer than the total wait before the attempt before it,
\* whatever the failures were.
C9_AsStated ==
    \A b \in DOMAIN call :
        call[b].trace =>
            \A k \in 2..(Len(call[b].gaps) - 1) : call[b].gaps[k + 1] > call[b].gaps[k]

\* an error page and an exception are followed by the same sleep
SameKind(o1, o2) ==
    o1 = o2 \/ {o1, o2} = {"error page", "exception"}

\* C9 amended: when two consecutive failed attempts hit the same kind of
\* failure, the total wait after the second is strictly longer than the total
\* wait after the first; after 403 responses this holds only up to the
\* fourth attempt of the call, the wait then staying at 15 seconds.
C9_SameKindLonger ==
    \A b \in DOMAIN call :
        call[b].trace =>
            \A k \in 2..(Len(call[b].gaps) - 1) :
                (/\ SameKind(call[b].outcomes[k - 1], call[b].outcomes[k])
                 /\ call[b].outcomes[k] = "403" => k <= 3) =>
                    call[b].gaps[k + 1] > call[b].gaps[k]

\* two retries after 403 responses: 13 and then 14 seconds
C9_Witness ==
    \E b \in DOMAIN call :
        /\ Len(call[b].gaps) = 3
        /\ call[b].outcomes = <<"403", "403">>
        /\ call[b].gaps[2] = 13
        /\ call[b].gaps[3] = 14

=============================================================================
